---- MODULE Spec2Model ----
(***************************************************************************)
(* PackedDB (src/db/pack.py): a read-only object database that multiplexes *)
(* lookups over the pack files of one directory.  The registry _entities   *)
(* is a list of [hits, entity, sha_to_index] items kept roughly sorted by  *)
(* hits; update_pack_entity_cache reconciles it with the directory.        *)
(***************************************************************************)
EXTENDS Integers, Sequences, FiniteSets, TLC

(***************************************************************************)
(* Bounds of the model.                                                    *)
(***************************************************************************)
\* number of distinct pack files that may ever appear in the directory
NPacks == 2
\* lookups are no longer started once the global hit counter reached this
MaxHits == 4
\* largest directory modification time
MaxTime == 2
\* threads that run _pack_info at the same time
NThreads == 2
\* PackedDB._sort_interval.  The class attribute is 500 (pack.py line 33);
\* the model runs with a small interval so that several periodic re-sorts
\* happen within MaxHits lookups.  It is a bound of the model.
_sort_interval == 2

(***************************************************************************)
(* The environment: pack files and the hashes they hold.                   *)
(***************************************************************************)
None == "None"

\* pack-<p>.pack, named by its content: a path always holds the same objects
Packs == 1..NPacks

\* 20 byte binary shas are [len |-> 20, id |-> n]; 40 byte hex shas are
\* [len |-> 40, id |-> n].
BinSha(n) == [len |-> 20, id |-> n]
HexSha(n) == [len |-> 40, id |-> n]

\* sha 0 is in every pack, sha p only in pack p, sha NPacks+1 in no pack;
\* pack p holds p-1 further objects (ids above 100) that are never asked for
LookupIds == 0..(NPacks + 1)

\* the sorted sha table of the index of pack p
PackShas(p) == <<BinSha(0), BinSha(p)>> \o [k \in 1..(p - 1) |-> BinSha(100 + k)]

\* entity.index().size(): number of objects of the pack
index_size(p) == Len(PackShas(p))

\* entity.pack().size(): the value the hit counter of a new item starts with
pack_size(p) == p

\* entity.index().sha_to_index(sha): the position of the binary sha in the
\* table as {index}, and None as {}
sha_to_index(p, sha) == {i - 1 : i \in {j \in 1..Len(PackShas(p)) : PackShas(p)[j] = sha}}

\* gitdb.util.to_bin_sha: 20 byte shas pass, 40 byte hex shas are decoded
to_bin_sha(sha) == IF sha.len = 20 THEN sha ELSE [len |-> 20, id |-> sha.id]

\* the streams callers try to store
Istreams == {"blob", "tree"}

\* the shas callers ask for, in both forms
Shas == {BinSha(n) : n \in LookupIds} \cup {HexSha(n) : n \in LookupIds}

(***************************************************************************)
(* The state of one PackedDB, and what a call hands back.                  *)
(*   w.loaded    whether the lazy attribute _entities has been set         *)
(*   w.entities  _entities: items [hits |-> item[0], entity |-> item[1]];  *)
(*               item[2] is sha_to_index of item[1]                        *)
(*   w.hit_count _hit_count,  w.st_mtime  _st_mtime                        *)
(*   w.nstat, w.nscan  os.stat and glob.glob calls made by the call        *)
(*   w.nsort     list.sort calls made by the call                          *)
(* env is what the call reads from outside: the pack files on disk, the    *)
(* directory mtime, the iteration order of Python sets (ord) and which     *)
(* new pack, if any, cannot be opened (failAt).                            *)
(***************************************************************************)
\* what is kept of a call: the method and how it ended, what it was given
\* and gave, the os.stat, glob.glob and list.sort calls it made, and what it
\* found (loaded, entities() and _st_mtime before it, hits since a presort)
CallRecord(op, exc, arg, ret, w, before) ==
    [op |-> op, exc |-> exc, arg |-> arg, ret |-> ret,
     nstat |-> w.nstat, nscan |-> w.nscan, nsort |-> w.nsort,
     was_loaded |-> before.was_loaded, was |-> before.was,
     was_mtime |-> before.was_mtime, since |-> before.since]

Raise(w, exc) == [w |-> w, ret |-> None, exc |-> exc]
Return(w, ret) == [w |-> w, ret |-> ret, exc |-> None]

Item(hits, entity) == [hits |-> hits, entity |-> entity]

Min(S) == CHOOSE x \in S : \A y \in S : x <= y

\* list.sort(key=..., reverse=True) given the keys: stable, descending
RECURSIVE list_sort_desc(_, _)
list_sort_desc(items, keys) ==
    IF items = <<>> THEN <<>>
    ELSE LET n == Len(items)
             front == list_sort_desc(SubSeq(items, 1, n - 1), SubSeq(keys, 1, n - 1))
             pos == Cardinality({i \in 1..(n - 1) : keys[i] >= keys[n]})
         IN SubSeq(front, 1, pos) \o <<items[n]>> \o SubSeq(front, pos + 1, n - 1)

\* the backing paths of the items of a registry
PathsOf(items) == {items[i].entity : i \in DOMAIN items}

\* item[0] of the item of pack p
HitsOf(items, p) == items[CHOOSE i \in DOMAIN items : items[i].entity = p].hits

RECURSIVE update_pack_entity_cache(_, _, _)

\* LazyMixin calls _set_cache_ on the first access of _entities
_set_cache_(w, env) ==
    update_pack_entity_cache([w EXCEPT !.loaded = TRUE, !.entities = <<>>], env, FALSE)

\* reading self._entities
getattr_entities(w, env) ==
    IF w.loaded THEN Return(w, None) ELSE _set_cache_(w, env)

\* self._entities.sort(key=lambda l: l[0], reverse=True), _entities read as g
sort_by_hits(g) ==
    IF g.exc # None THEN Raise(g.w, g.exc)
    ELSE Return([g.w EXCEPT !.entities =
                    list_sort_desc(@, [i \in DOMAIN @ |-> @[i].hits]),
                            !.nsort = @ + 1], None)

_sort_entities(w, env) == sort_by_hits(getattr_entities(w, env))

\* (faulty variant) the item before del_index is deleted; before the first
\* this is index -1, the last item
del_item_off_by_one(items, del_index) ==
    IF del_index = 1 THEN SubSeq(items, 1, Len(items) - 1)
    ELSE SubSeq(items, 1, del_index - 2) \o SubSeq(items, del_index, Len(items))

\* del(self._entities[del_index]), del_index counted from 1
del_item(items, del_index) ==
    SubSeq(items, 1, del_index - 1) \o SubSeq(items, del_index + 1, Len(items))

\* (faulty variant) the loop finds the item and does not delete it
remove_packs_keeps(items, gone) == [items |-> items, exc |-> None]

\* the loop over (our_pack_files - pack_files): delete the first item of each
\* removed pack file, AssertionError when there is none
RECURSIVE remove_packs(_, _)
remove_packs(items, gone) ==
    IF gone = <<>> THEN [items |-> items, exc |-> None]
    ELSE IF \A i \in DOMAIN items : items[i].entity # Head(gone)
    THEN [items |-> items, exc |-> "AssertionError"]
    ELSE remove_packs(
             del_item(items, Min({i \in DOMAIN items : items[i].entity = Head(gone)})),
             Tail(gone))

\* (faulty variant) a new item starts with the number of objects of the pack
append_packs_object_count(items, new, nadd) ==
    items \o [k \in 1..nadd |-> Item(index_size(new[k]), new[k])]

\* the loop over (pack_files - our_pack_files): nadd items are appended, each
\* starting with the hits entity.pack().size()
append_packs(items, new, nadd) ==
    items \o [k \in 1..nadd |-> Item(pack_size(new[k]), new[k])]

\* self._sort_entities() (s); return True
update_sorted(s) == IF s.exc # None THEN Raise(s.w, s.exc) ELSE Return(s.w, TRUE)

\* removed packs are dropped (r), then the priorities are reinitialized
update_removed(w, env, r) ==
    IF r.exc # None THEN Raise([w EXCEPT !.entities = r.items], r.exc)
    ELSE update_sorted(_sort_entities([w EXCEPT !.entities = r.items], env))

\* new packs are appended; opening the new pack number env.failAt fails
update_new(w, env, new, gone) ==
    IF env.failAt \in 1..Len(new)
    THEN Raise([w EXCEPT !.entities = append_packs(@, new, env.failAt - 1)], "IOError")
    ELSE update_removed(w, env,
             remove_packs(append_packs(w.entities, new, Len(new)), gone))

\* (faulty variant) every pack file on disk is taken as new
update_changed_all_new(g, env) ==
    IF g.exc # None THEN Raise(g.w, g.exc)
    ELSE update_new(g.w, env,
             SelectSeq(env.ord, LAMBDA p : p \in env.disk),
             SelectSeq(env.ord, LAMBDA p : p \in PathsOf(g.w.entities) \ env.disk))

\* pack_files is globbed, our_pack_files read from _entities (g)
update_changed(g, env) ==
    IF g.exc # None THEN Raise(g.w, g.exc)
    ELSE update_new(g.w, env,
             SelectSeq(env.ord, LAMBDA p : p \in env.disk \ PathsOf(g.w.entities)),
             SelectSeq(env.ord, LAMBDA p : p \in PathsOf(g.w.entities) \ env.disk))

\* (faulty variant) the early return compares with < where the code has <=
update_pack_entity_cache_lt(w, env, force) ==
    IF ~force /\ env.mtime < w.st_mtime
    THEN Return([w EXCEPT !.nstat = @ + 1], FALSE)
    ELSE update_changed(
             getattr_entities([w EXCEPT !.nstat = @ + 1, !.st_mtime = env.mtime,
                                        !.nscan = @ + 1], env),
             env)

update_pack_entity_cache(w, env, force) ==
    IF ~force /\ env.mtime <= w.st_mtime
    THEN Return([w EXCEPT !.nstat = @ + 1], FALSE)
    ELSE update_changed(
             getattr_entities([w EXCEPT !.nstat = @ + 1, !.st_mtime = env.mtime,
                                        !.nscan = @ + 1], env),
             env)

\* (faulty variant) the hit is counted globally and not on the item
pack_info_hit_uncounted(w, bin, i) ==
    Return([w EXCEPT !.hit_count = @ + 1],
           <<w.entities[i].entity,
             CHOOSE index \in sha_to_index(w.entities[i].entity, bin) : TRUE>>)

\* the first item whose sha_to_index knows the sha, its counters incremented
pack_info_hit(w, bin, i) ==
    Return([w EXCEPT !.entities[i].hits = @ + 1, !.hit_count = @ + 1],
           <<w.entities[i].entity,
             CHOOSE index \in sha_to_index(w.entities[i].entity, bin) : TRUE>>)

\* (faulty variant) the first item is counted as hit before its index is asked
pack_info_scan_counts_miss(g, bin) ==
    IF g.exc # None THEN Raise(g.w, g.exc)
    ELSE IF g.w.entities = <<>> THEN Raise(g.w, "BadObject")
    ELSE IF \A i \in DOMAIN g.w.entities : sha_to_index(g.w.entities[i].entity, bin) = {}
    THEN Raise([g.w EXCEPT !.entities[1].hits = @ + 1], "BadObject")
    ELSE pack_info_hit(g.w, bin,
             Min({i \in DOMAIN g.w.entities :
                     sha_to_index(g.w.entities[i].entity, bin) # {}}))

\* (faulty variant) the loop gives up after the first item
pack_info_scan_first_only(g, bin) ==
    IF g.exc # None THEN Raise(g.w, g.exc)
    ELSE IF g.w.entities = <<>> \/ sha_to_index(g.w.entities[1].entity, bin) = {}
    THEN Raise(g.w, "BadObject")
    ELSE pack_info_hit(g.w, bin, 1)

\* for item in self._entities (read as g)
pack_info_scan(g, bin) ==
    IF g.exc # None THEN Raise(g.w, g.exc)
    ELSE IF \A i \in DOMAIN g.w.entities : sha_to_index(g.w.entities[i].entity, bin) = {}
    THEN Raise(g.w, "BadObject")
    ELSE pack_info_hit(g.w, bin,
             Min({i \in DOMAIN g.w.entities :
                     sha_to_index(g.w.entities[i].entity, bin) # {}}))

\* after the presort (s)
pack_info_sorted(s, env, sha) ==
    IF s.exc # None THEN Raise(s.w, s.exc)
    ELSE pack_info_scan(getattr_entities(s.w, env), to_bin_sha(sha))

_pack_info(w, env, sha) ==
    pack_info_sorted(IF w.hit_count % _sort_interval = 0 THEN _sort_entities(w, env)
                     ELSE Return(w, None),
                     env, sha)

\* try: self._pack_info(sha) (r) ... except BadObject
has_object_result(r) ==
    IF r.exc = None THEN Return(r.w, TRUE)
    ELSE IF r.exc = "BadObject" THEN Return(r.w, FALSE)
    ELSE Raise(r.w, r.exc)

\* (faulty variant) has_object refreshes the registry before it looks
has_object_refreshing(w, env, sha) ==
    has_object_result(_pack_info(update_pack_entity_cache(w, env, FALSE).w, env, sha))

has_object(w, env, sha) == has_object_result(_pack_info(w, env, sha))

\* entity.info_at_index(index) and entity.stream_at_index(index) are the
\* pack's own business: the result names the entity and the index asked
at_index(r, what) ==
    IF r.exc # None THEN Raise(r.w, r.exc)
    ELSE Return(r.w, <<what, r.ret[1], r.ret[2]>>)

info(w, env, sha) == at_index(_pack_info(w, env, sha), "info")

stream(w, env, sha) == at_index(_pack_info(w, env, sha), "stream")

\* (faulty variant) store reads _entities before it gives up
store_reading_entities(w, env, istream) ==
    Raise(getattr_entities(w, env).w, "UnsupportedOperation")

store(w, env, istream) == Raise(w, "UnsupportedOperation")

store_async(w, env, reader) == Raise(w, "NotImplementedError")

\* [ item[1] for item in self._entities ], _entities read as g
entities_list(g) ==
    IF g.exc # None THEN Raise(g.w, g.exc)
    ELSE Return(g.w, [i \in DOMAIN g.w.entities |-> g.w.entities[i].entity])

entities(w, env) == entities_list(getattr_entities(w, env))

RECURSIVE Concat(_)
Concat(seqs) == IF seqs = <<>> THEN <<>> ELSE Head(seqs) \o Concat(Tail(seqs))

\* the whole sequence the generator yields over self.entities() (e)
sha_iter_yield(e) ==
    IF e.exc # None THEN Raise(e.w, e.exc)
    ELSE Return(e.w, Concat([i \in DOMAIN e.ret |->
                     [index \in 1..index_size(e.ret[i]) |-> PackShas(e.ret[i])[index]]]))

sha_iter(w, env) == sha_iter_yield(entities(w, env))

\* reduce(lambda x,y: x+y, sizes) without an initial value
RECURSIVE fold_add(_, _)
fold_add(acc, rest) == IF rest = <<>> THEN acc ELSE fold_add(acc + Head(rest), Tail(rest))

reduce_add(w, sizes) ==
    IF sizes = <<>> THEN Raise(w, "TypeError")
    ELSE Return(w, fold_add(Head(sizes), Tail(sizes)))

\* sizes = [item[1].index().size() for item in self._entities], read as g
size_sum(g) ==
    IF g.exc # None THEN Raise(g.w, g.exc)
    ELSE reduce_add(g.w, [i \in DOMAIN g.w.entities |->
                              index_size(g.w.entities[i].entity)])

size(w, env) == size_sum(getattr_entities(w, env))

(***************************************************************************)
(* One PackedDB over one directory.                                        *)
(***************************************************************************)
VARIABLES
    loaded,       \* _entities has been set (LazyMixin)
    _entities,    \* the registry, <<>> while not loaded
    _hit_count,
    _st_mtime,
    disk,         \* the pack-*.pack files in root_path()
    dir_mtime,    \* os.stat(root_path()).st_mtime
    last,         \* the call or file system change that made this state
    pc,           \* where each thread is in _pack_info
    frame,        \* the locals of each thread's _pack_info
    result,       \* what each thread's last _pack_info gave
    upd           \* where an update_pack_entity_cache made in steps is

vars == <<loaded, _entities, _hit_count, _st_mtime, disk, dir_mtime, last,
          pc, frame, result, upd>>

Threads == 1..NThreads

Self == [loaded |-> loaded, entities |-> _entities, hit_count |-> _hit_count,
         st_mtime |-> _st_mtime, nstat |-> 0, nscan |-> 0, nsort |-> 0]

\* a PackedDB as __init__ leaves it
Constructed == [loaded |-> FALSE, entities |-> <<>>, hit_count |-> 0,
                st_mtime |-> 0, nstat |-> 0, nscan |-> 0, nsort |-> 0]

\* the orders a Python set of pack files may be iterated in
Orders == {o \in [1..NPacks -> Packs] : \A i, j \in 1..NPacks : o[i] = o[j] => i = j}

\* what a call may meet when it scans: the order matters for the pack files
\* it appends, and any one of them may fail to open
ScanEnvs == {[disk |-> disk, mtime |-> dir_mtime, ord |-> o, failAt |-> f] :
                o \in Orders, f \in 0..Cardinality(disk \ PathsOf(_entities))}

\* a call that reads _entities scans only when _entities is not loaded yet
Env0 == [disk |-> disk, mtime |-> dir_mtime, ord |-> [i \in 1..NPacks |-> i],
         failAt |-> 0]
Envs == IF loaded THEN {Env0} ELSE ScanEnvs

NoFrame == [sha |-> BinSha(0), i |-> 0, item |-> 0, index |-> 0, tmp |-> 0]
NoResult == [sha |-> BinSha(0), ret |-> <<>>, exc |-> "pending"]

\* no update_pack_entity_cache is under way.  new and gone are the pack files
\* its loops have still to go through; kept are the pack files that were
\* registered at the start and are on disk
NoUpdate == [pc |-> "idle", new |-> <<>>, gone |-> <<>>, kept |-> {}]

\* a lookup found the sha
IsHit(l) == /\ l.op \in {"has_object", "info", "stream"}
            /\ l.exc = None
            /\ l.op = "has_object" => l.ret = TRUE

\* the hits counted since the latest re-sort that a lookup made before its
\* scan, -1 while no lookup has re-sorted; as it stands after the call l
SinceSort(l) ==
    IF l.op \in {"has_object", "info", "stream"} /\ l.nsort > 0
    THEN (IF IsHit(l) THEN 1 ELSE 0)
    ELSE IF l.since = -1 THEN -1
    ELSE l.since + (IF IsHit(l) THEN 1 ELSE 0)

\* what the call that is made now finds: loaded, entities() and _st_mtime
\* before it, and SinceSort before it
Before == [was_loaded |-> loaded,
           was |-> [i \in DOMAIN _entities |-> _entities[i].entity],
           was_mtime |-> _st_mtime,
           since |-> SinceSort(last)]

\* before the first call
NoCall == [was_loaded |-> FALSE, was |-> <<>>, was_mtime |-> 0, since |-> -1]

\* the fields as the call leaves them; the list is kept as a plain sequence
Called(op, arg, r) ==
    /\ loaded' = r.w.loaded
    /\ _entities' = SubSeq(r.w.entities, 1, Len(r.w.entities))
    /\ _hit_count' = r.w.hit_count
    /\ _st_mtime' = r.w.st_mtime
    /\ last' = CallRecord(op, r.exc, arg, r.ret, r.w, Before)
    /\ UNCHANGED <<disk, dir_mtime, pc, frame, result, upd>>

Init ==
    /\ loaded = FALSE
    /\ _entities = <<>>
    /\ _hit_count = 0
    /\ _st_mtime = 0
    /\ disk \in SUBSET Packs
    /\ dir_mtime \in {0, 1}
    /\ last = CallRecord("init", None, None, None, Constructed, NoCall)
    /\ pc = [t \in Threads |-> "idle"]
    /\ frame = [t \in Threads |-> NoFrame]
    /\ result = [t \in Threads |-> NoResult]
    /\ upd = NoUpdate

HasObject ==
    \E sha \in Shas, env \in Envs :
        /\ _hit_count < MaxHits
        /\ Called("has_object", sha, has_object(Self, env, sha))

Info ==
    \E sha \in Shas, env \in Envs :
        /\ _hit_count < MaxHits
        /\ Called("info", sha, info(Self, env, sha))

Stream ==
    \E sha \in Shas, env \in Envs :
        /\ _hit_count < MaxHits
        /\ Called("stream", sha, stream(Self, env, sha))

Store ==
    \E istream \in Istreams, env \in Envs :
        Called("store", istream, store(Self, env, istream))

StoreAsync ==
    \E reader \in Istreams, env \in Envs :
        Called("store_async", reader, store_async(Self, env, reader))

UpdatePackEntityCache ==
    \E force \in BOOLEAN, env \in ScanEnvs :
        Called("update_pack_entity_cache", force,
               update_pack_entity_cache(Self, env, force))

Entities == \E env \in Envs : Called("entities", None, entities(Self, env))

ShaIter == \E env \in Envs : Called("sha_iter", None, sha_iter(Self, env))

Size == \E env \in Envs : Called("size", None, size(Self, env))

\* what happens to the directory behind the database's back.  A change made
\* within the timestamp granularity leaves the mtime as it was.
Changed(op, arg) ==
    /\ \/ dir_mtime' = dir_mtime
       \/ dir_mtime < MaxTime /\ dir_mtime' = dir_mtime + 1
    /\ last' = CallRecord(op, None, arg, None, Constructed, Before)
    /\ UNCHANGED <<loaded, _entities, _hit_count, _st_mtime, pc, frame, result, upd>>

FsAddPack == \E p \in Packs \ disk : disk' = disk \cup {p} /\ Changed("fs_add", p)

FsRemovePack == \E p \in disk : disk' = disk \ {p} /\ Changed("fs_remove", p)

\* another entry of the directory changes: only the mtime moves
FsTouch ==
    /\ dir_mtime < MaxTime
    /\ dir_mtime' = dir_mtime + 1
    /\ last' = CallRecord("fs_touch", None, None, None, Constructed, Before)
    /\ UNCHANGED <<loaded, _entities, _hit_count, _st_mtime, disk, pc, frame, result, upd>>

Next ==
    \/ HasObject
    \/ Info
    \/ Stream
    \/ Store
    \/ StoreAsync
    \/ UpdatePackEntityCache
    \/ Entities
    \/ ShaIter
    \/ Size
    \/ FsAddPack
    \/ FsRemovePack
    \/ FsTouch

Spec == Init /\ [][Next]_vars

(***************************************************************************)
(* Several threads in _pack_info at once, without locks.  A thread may be  *)
(* switched between any two of: the test of _hit_count, the sort, each     *)
(* turn of the for loop, the read and the write of item[0] += 1, the read  *)
(* and the write of self._hit_count += 1.  The sort itself is taken as     *)
(* one step, which is the least the interpreter can do to it.              *)
(***************************************************************************)
\* the registry after the first update_pack_entity_cache found every pack
InitConc ==
    /\ loaded = TRUE
    /\ disk = Packs
    /\ dir_mtime = 1
    /\ _st_mtime = 1
    /\ _hit_count = 0
    /\ \E o \in Orders :
          _entities = update_pack_entity_cache(Constructed,
                          [disk |-> Packs, mtime |-> 1, ord |-> o, failAt |-> 0],
                          TRUE).w.entities
    /\ last = CallRecord("update_pack_entity_cache", None, TRUE, TRUE,
                         [Constructed EXCEPT !.nstat = 2, !.nscan = 1, !.nsort = 1],
                         NoCall)
    /\ pc = [t \in Threads |-> "idle"]
    /\ frame = [t \in Threads |-> NoFrame]
    /\ result = [t \in Threads |-> NoResult]
    /\ upd = NoUpdate

Goto(t, label) == pc' = [pc EXCEPT ![t] = label]

\* _pack_info(sha) is entered: if self._hit_count % self._sort_interval == 0
T_Enter(t) ==
    \E sha \in Shas :
        /\ pc[t] = "idle"
        /\ _hit_count < MaxHits
        /\ \A i \in DOMAIN _entities :
              _entities[i].hits < pack_size(_entities[i].entity) + MaxHits
        /\ frame' = [frame EXCEPT ![t] = [NoFrame EXCEPT !.sha = sha]]
        /\ result' = [result EXCEPT ![t] = NoResult]
        /\ Goto(t, IF _hit_count % _sort_interval = 0 THEN "sort" ELSE "bin")
        /\ UNCHANGED <<loaded, _entities, _hit_count, _st_mtime, disk, dir_mtime, last, upd>>

\* self._sort_entities()
T_Sort(t) ==
    /\ pc[t] = "sort"
    /\ _entities' = _sort_entities(Self, Env0).w.entities
    /\ Goto(t, "bin")
    /\ UNCHANGED <<loaded, _hit_count, _st_mtime, disk, dir_mtime, last, frame, result, upd>>

\* sha = to_bin_sha(sha); the for loop takes its iterator
T_BinSha(t) ==
    /\ pc[t] = "bin"
    /\ frame' = [frame EXCEPT ![t].sha = to_bin_sha(@), ![t].i = 0]
    /\ Goto(t, "for")
    /\ UNCHANGED <<loaded, _entities, _hit_count, _st_mtime, disk, dir_mtime, last, result, upd>>

\* one turn of for item in self._entities: the list iterator hands out
\* _entities[i] while i is inside the list as it is now, and the item is
\* asked for the sha; past the end, BadObject is raised
T_For(t) ==
    /\ pc[t] = "for"
    /\ IF frame[t].i < Len(_entities)
       THEN LET item == _entities[frame[t].i + 1]
                index == sha_to_index(item.entity, frame[t].sha)
            IN /\ frame' = [frame EXCEPT ![t].i = @ + 1,
                                         ![t].item = item.entity,
                                         ![t].index = IF index = {} THEN 0
                                                      ELSE CHOOSE x \in index : TRUE]
               /\ Goto(t, IF index = {} THEN "for" ELSE "item_read")
               /\ UNCHANGED result
       ELSE /\ result' = [result EXCEPT ![t] =
                             [sha |-> frame[t].sha, ret |-> <<>>, exc |-> "BadObject"]]
            /\ frame' = [frame EXCEPT ![t] = NoFrame]
            /\ Goto(t, "idle")
    /\ UNCHANGED <<loaded, _entities, _hit_count, _st_mtime, disk, dir_mtime, last, upd>>

\* item[0] += 1 reads item[0] ...  An item that has been deleted from the
\* list meanwhile lives on for this thread alone: its counter is seen by
\* nobody else and is not modelled.
T_ItemRead(t) ==
    /\ pc[t] = "item_read"
    /\ frame' = [frame EXCEPT ![t].tmp =
                    IF frame[t].item \in PathsOf(_entities)
                    THEN HitsOf(_entities, frame[t].item) ELSE 0]
    /\ Goto(t, "item_write")
    /\ UNCHANGED <<loaded, _entities, _hit_count, _st_mtime, disk, dir_mtime, last, result, upd>>

\* ... and stores the sum into the item, wherever the list has it now
T_ItemWrite(t) ==
    /\ pc[t] = "item_write"
    /\ _entities' = [i \in DOMAIN _entities |->
                        IF _entities[i].entity = frame[t].item
                        THEN [_entities[i] EXCEPT !.hits = frame[t].tmp + 1]
                        ELSE _entities[i]]
    /\ Goto(t, "count_read")
    /\ UNCHANGED <<loaded, _hit_count, _st_mtime, disk, dir_mtime, last, frame, result, upd>>

\* self._hit_count += 1 reads _hit_count ...
T_CountRead(t) ==
    /\ pc[t] = "count_read"
    /\ frame' = [frame EXCEPT ![t].tmp = _hit_count]
    /\ Goto(t, "count_write")
    /\ UNCHANGED <<loaded, _entities, _hit_count, _st_mtime, disk, dir_mtime, last, result, upd>>

\* ... and stores the sum; return (item[1], index)
T_CountWrite(t) ==
    /\ pc[t] = "count_write"
    /\ _hit_count' = frame[t].tmp + 1
    /\ result' = [result EXCEPT ![t] =
                     [sha |-> frame[t].sha, ret |-> <<frame[t].item, frame[t].index>>,
                      exc |-> None]]
    /\ frame' = [frame EXCEPT ![t] = NoFrame]
    /\ Goto(t, "idle")
    /\ UNCHANGED <<loaded, _entities, _st_mtime, disk, dir_mtime, last, upd>>

PackInfoEnter == \E t \in Threads : T_Enter(t)
PackInfoSort == \E t \in Threads : T_Sort(t)
PackInfoBinSha == \E t \in Threads : T_BinSha(t)
PackInfoFor == \E t \in Threads : T_For(t)
PackInfoItemRead == \E t \in Threads : T_ItemRead(t)
PackInfoItemWrite == \E t \in Threads : T_ItemWrite(t)
PackInfoCountRead == \E t \in Threads : T_CountRead(t)
PackInfoCountWrite == \E t \in Threads : T_CountWrite(t)

NextConc ==
    \/ PackInfoEnter
    \/ PackInfoSort
    \/ PackInfoBinSha
    \/ PackInfoFor
    \/ PackInfoItemRead
    \/ PackInfoItemWrite
    \/ PackInfoCountRead
    \/ PackInfoCountWrite

SpecConc == InitConc /\ [][NextConc]_vars

(***************************************************************************)
(* update_pack_entity_cache running while threads are in _pack_info, again *)
(* without locks.  The call may be switched after the sets of new and      *)
(* removed pack files are computed, after each append, after each del and  *)
(* before the final sort.  The directory does not change meanwhile.        *)
(* One thread makes lookups, the others stay away from the database.       *)
(***************************************************************************)
\* a registry loaded from an earlier content of the directory
InitRefresh ==
    /\ loaded = TRUE
    /\ disk \in SUBSET Packs
    /\ dir_mtime = 2
    /\ _st_mtime = 1
    /\ _hit_count = 0
    /\ \E o \in Orders, before \in SUBSET Packs :
          _entities = update_pack_entity_cache(Constructed,
                          [disk |-> before, mtime |-> 1, ord |-> o, failAt |-> 0],
                          TRUE).w.entities
    /\ last = CallRecord("update_pack_entity_cache", None, TRUE, TRUE,
                         [Constructed EXCEPT !.nstat = 2, !.nscan = 1, !.nsort = 1],
                         NoCall)
    /\ pc = [t \in Threads |-> IF t = 1 THEN "idle" ELSE "away"]
    /\ frame = [t \in Threads |-> NoFrame]
    /\ result = [t \in Threads |-> NoResult]
    /\ upd = [NoUpdate EXCEPT !.kept = PathsOf(_entities) \cap disk]

\* lines 125-134: os.stat, the mtime test, glob, our_pack_files
U_Stat(force) ==
    /\ upd.pc = "idle"
    /\ IF ~force /\ dir_mtime <= _st_mtime
       THEN UNCHANGED <<_st_mtime, upd>>
       ELSE /\ _st_mtime' = dir_mtime
            /\ \E o \in Orders :
                  upd' = [upd EXCEPT
                            !.pc = "new",
                            !.new = SelectSeq(o, LAMBDA p : p \in disk \ PathsOf(_entities)),
                            !.gone = SelectSeq(o, LAMBDA p : p \in PathsOf(_entities) \ disk)]
    /\ UNCHANGED <<loaded, _entities, _hit_count, disk, dir_mtime, last, pc, frame, result>>

\* one turn of the loop over the new pack files
U_Append ==
    /\ upd.pc = "new"
    /\ IF upd.new = <<>>
       THEN /\ upd' = [upd EXCEPT !.pc = "gone"]
            /\ UNCHANGED _entities
       ELSE /\ _entities' = append_packs(_entities, upd.new, 1)
            /\ upd' = [upd EXCEPT !.new = Tail(@)]
    /\ UNCHANGED <<loaded, _hit_count, _st_mtime, disk, dir_mtime, last, pc, frame, result>>

\* one turn of the loop over the removed pack files
U_Remove ==
    /\ upd.pc = "gone"
    /\ IF upd.gone = <<>>
       THEN /\ upd' = [upd EXCEPT !.pc = "sort"]
            /\ UNCHANGED _entities
       ELSE LET r == remove_packs(_entities, <<Head(upd.gone)>>)
            IN /\ _entities' = r.items
               /\ upd' = IF r.exc # None
                         THEN [upd EXCEPT !.pc = "idle", !.new = <<>>, !.gone = <<>>]
                         ELSE [upd EXCEPT !.gone = Tail(@)]
    /\ UNCHANGED <<loaded, _hit_count, _st_mtime, disk, dir_mtime, last, pc, frame, result>>

\* self._sort_entities(); return True
U_Sort ==
    /\ upd.pc = "sort"
    /\ _entities' = _sort_entities(Self, Env0).w.entities
    /\ upd' = [upd EXCEPT !.pc = "idle"]
    /\ UNCHANGED <<loaded, _hit_count, _st_mtime, disk, dir_mtime, last, pc, frame, result>>

UpdateStat == \E force \in BOOLEAN : U_Stat(force)

NextRefresh ==
    \/ PackInfoEnter
    \/ PackInfoSort
    \/ PackInfoBinSha
    \/ PackInfoFor
    \/ PackInfoItemRead
    \/ PackInfoItemWrite
    \/ PackInfoCountRead
    \/ PackInfoCountWrite
    \/ UpdateStat
    \/ U_Append
    \/ U_Remove
    \/ U_Sort

SpecRefresh == InitRefresh /\ [][NextRefresh]_vars

(***************************************************************************)
(* The same database over a directory whose mtime moves forward with every *)
(* pack file that is added or removed, also those found at construction.   *)
(***************************************************************************)
InitStrict == Init /\ dir_mtime > 0

FsAddPackNewer ==
    \E p \in Packs \ disk :
        disk' = disk \cup {p} /\ Changed("fs_add", p) /\ dir_mtime' > dir_mtime

FsRemovePackNewer ==
    \E p \in disk :
        disk' = disk \ {p} /\ Changed("fs_remove", p) /\ dir_mtime' > dir_mtime

NextStrict ==
    \/ HasObject
    \/ Info
    \/ Stream
    \/ Store
    \/ StoreAsync
    \/ UpdatePackEntityCache
    \/ Entities
    \/ ShaIter
    \/ Size
    \/ FsAddPackNewer
    \/ FsRemovePackNewer
    \/ FsTouch

SpecStrict == InitStrict /\ [][NextStrict]_vars

(***************************************************************************)
(* What the properties speak of.                                           *)
(***************************************************************************)
LookupOps == {"has_object", "info", "stream"}

\* pack p holds the object with this id
Holds(p, id) == \E i \in 1..Len(PackShas(p)) : PackShas(p)[i].id = id

\* a lookup has just been made and it came to scan the registry: the
\* registry was loaded, or loading it on this first use did not fail
Scanned == /\ last'.op \in LookupOps
           /\ loaded \/ last'.exc # "IOError"

\* the archives registered when the lookup scans, and their hit counts then
ScanPaths == IF loaded THEN PathsOf(_entities) ELSE PathsOf(_entities')
ScanHits(p) == IF loaded THEN HitsOf(_entities, p) ELSE pack_size(p)

Range(f) == {f[i] : i \in DOMAIN f}

\* size() of a loaded registry whose entities() are these packs
SizeOfPacks(packs) ==
    size_sum(Return([Constructed EXCEPT !.loaded = TRUE,
                        !.entities = [i \in DOMAIN packs |-> Item(0, packs[i])]], None))

\* C1: a lookup of a hash that some registered archive holds returns an
\* archive that is registered and whose index knows the hash, with the
\* locator its index gives, and that archive's hit count and the global
\* counter are greater after the call than before.
C1_LookupFinds ==
    [][(Scanned /\ \E p \in ScanPaths : Holds(p, last'.arg.id))
        => /\ last'.exc = None
           /\ _hit_count' = _hit_count + 1
           /\ \E e \in ScanPaths :
                /\ e \in PathsOf(_entities')
                /\ Holds(e, last'.arg.id)
                /\ HitsOf(_entities', e) > ScanHits(e)
                /\ last'.op = "has_object" => last'.ret = TRUE
                /\ last'.op # "has_object" =>
                      /\ last'.ret[2] = e
                      /\ PackShas(e)[last'.ret[3] + 1].id = last'.arg.id]_vars

C1_Witness ==
    /\ last.op = "info"
    /\ last.was_loaded
    /\ last.exc = None
    /\ last.arg.len = 40
    /\ last.ret[2] \in PathsOf(_entities)
    /\ _hit_count > 1

\* C2: a lookup of a hash that no registered archive holds signals BadObject
\* (has_object returns False), and changes no item's hit count, not the
\* global counter and not the set of registered archives.
C2_LookupMisses ==
    [][(Scanned /\ \A p \in ScanPaths : ~Holds(p, last'.arg.id))
        => /\ last'.op = "has_object" => last'.exc = None /\ last'.ret = FALSE
           /\ last'.op # "has_object" => last'.exc = "BadObject"
           /\ _hit_count' = _hit_count
           /\ PathsOf(_entities') = ScanPaths
           /\ Len(_entities') = Cardinality(ScanPaths)
           /\ \A p \in ScanPaths : HitsOf(_entities', p) = ScanHits(p)]_vars

C2_Witness ==
    /\ last.op = "has_object"
    /\ last.exc = None
    /\ last.ret = FALSE
    /\ _entities # <<>>
    /\ _hit_count > 0

\* C3: size() returns the sum of the object counts of the registered
\* archives, 0 for the empty registry, and raises nothing.
C3_SizeIsSum ==
    (last.op = "size" /\ last.exc # "IOError")
        => /\ last.exc = None
           /\ last.ret = fold_add(0, [i \in DOMAIN _entities |->
                                         index_size(_entities[i].entity)])

\* C4: update_pack_entity_cache returns True exactly when the call inserted
\* or removed an item.
C4_TrueIffChanged ==
    (last.op = "update_pack_entity_cache" /\ last.exc = None)
        => (last.ret = TRUE <=> PathsOf(_entities) # Range(last.was))

\* C5: update_pack_entity_cache(force=False) that meets a directory mtime not
\* above _st_mtime returns False without globbing and leaves the registry,
\* the counters and _st_mtime as they were; the second of two calls with
\* force=False and nothing in between returns False without globbing.
C5_SkipWhenNotNewer ==
    [][(last'.op = "update_pack_entity_cache" /\ last'.arg = FALSE)
        => /\ dir_mtime <= _st_mtime
                => /\ last'.exc = None
                   /\ last'.ret = FALSE
                   /\ last'.nscan = 0
                   /\ UNCHANGED <<loaded, _entities, _hit_count, _st_mtime>>
           /\ last.op = "update_pack_entity_cache"
                => /\ last'.exc = None
                   /\ last'.ret = FALSE
                   /\ last'.nscan = 0]_vars

C5_Witness ==
    /\ last.op = "update_pack_entity_cache"
    /\ last.arg = FALSE
    /\ last.exc = None
    /\ last.ret = FALSE
    /\ last.nscan = 0
    /\ loaded
    /\ PathsOf(_entities) # disk

\* C6: with the registry equal to the directory, after one more pack file P
\* appears and update_pack_entity_cache(True) returns, entities() holds P and
\* size() is size() before plus the object count of P.
C6_AddedPackCounts ==
    (/\ last.op = "update_pack_entity_cache"
     /\ last.arg = TRUE
     /\ last.exc = None
     /\ last.was_loaded)
        => \A P \in disk \ Range(last.was) :
              disk \ {P} = Range(last.was)
                 => /\ P \in Range(entities(Self, Env0).ret)
                    /\ SizeOfPacks(last.was).exc = None
                    /\ size(Self, Env0).exc = None
                    /\ size(Self, Env0).ret = SizeOfPacks(last.was).ret + index_size(P)

\* C7: after the file of a registered archive P is gone and
\* update_pack_entity_cache(True) returns, P is not registered and every other
\* registered archive still on disk is; from then on a lookup of a hash only
\* P holds signals BadObject while P is not registered, and P is registered
\* again only by a reconciliation that finds its file on disk.
C7_RemovedPackGone ==
    [][/\ (last'.op = "update_pack_entity_cache" /\ last'.arg = TRUE /\ last'.exc = None)
            => \A P \in PathsOf(_entities) :
                  /\ P \notin disk => P \notin PathsOf(_entities')
                  /\ P \in disk => P \in PathsOf(_entities')
       /\ \A P \in Packs \ PathsOf(_entities) :
            loaded =>
              /\ (last'.op \in LookupOps /\ last'.arg.id = P)
                    => /\ last'.op = "has_object" => last'.ret = FALSE
                       /\ last'.op # "has_object" => last'.exc = "BadObject"
              /\ P \in PathsOf(_entities')
                    => /\ last'.op = "update_pack_entity_cache"
                       /\ P \in disk]_vars

C7_Witness ==
    /\ last.op = "update_pack_entity_cache"
    /\ last.arg = TRUE
    /\ last.exc = None
    /\ _entities # <<>>
    /\ _hit_count > 0
    /\ \E P \in Range(last.was) : P \notin disk /\ P \notin PathsOf(_entities)

\* C8: store fails with UnsupportedOperation whatever it is given and
\* changes nothing.
C8_StoreUnsupported ==
    [][last'.op = "store"
        => /\ last'.exc = "UnsupportedOperation"
           /\ last'.nstat = 0 /\ last'.nscan = 0
           /\ UNCHANGED <<loaded, _entities, _hit_count, _st_mtime, disk, dir_mtime>>]_vars

C8_Witness ==
    /\ last.op = "store"
    /\ last.exc = "UnsupportedOperation"
    /\ _entities # <<>>
    /\ _hit_count > 0

\* C9: with threads in _pack_info at the same time and no reconciliation, a
\* lookup of a hash that a registered archive holds never ends in BadObject
\* and never returns an archive that does not hold the hash.
C9_RacingLookupsCorrect ==
    \A t \in Threads :
        (result[t].exc # "pending" /\ \E p \in disk : Holds(p, result[t].sha.id))
            => /\ result[t].exc = None
               /\ Holds(result[t].ret[1], result[t].sha.id)

\* C10 as claimed: has_object, in every state, makes no os.stat and no glob,
\* leaves the registered archives and _st_mtime as they were, and returns
\* True exactly when a registered archive holds the hash.
C10_NeverReconciles ==
    last.op = "has_object"
        => /\ last.nstat = 0 /\ last.nscan = 0
           /\ loaded = last.was_loaded
           /\ PathsOf(_entities) = Range(last.was)
           /\ last.exc = None
           /\ last.ret = (\E p \in PathsOf(_entities) : Holds(p, last.arg.id))

\* C10 amended: once _entities is loaded, has_object makes no os.stat and no
\* glob, leaves the registered archives and _st_mtime as they were, and
\* returns True exactly when a registered archive holds the hash.
C10_NoReconcileOnceLoaded ==
    [][(last'.op = "has_object" /\ loaded)
        => /\ last'.nstat = 0 /\ last'.nscan = 0
           /\ loaded'
           /\ PathsOf(_entities') = PathsOf(_entities)
           /\ _st_mtime' = _st_mtime
           /\ last'.exc = None
           /\ last'.ret = (\E p \in PathsOf(_entities) : Holds(p, last'.arg.id))]_vars

C10_Witness ==
    /\ last.op = "has_object"
    /\ last.nstat = 0
    /\ last.exc = None
    /\ last.ret = TRUE
    /\ PathsOf(_entities) # disk

\* C11: entities() and size() give the same result before and after any
\* lookup (hit, miss, with or without the periodic re-sort) made on a loaded
\* registry, so that two calls with only lookups in between agree; the
\* sequence entities() returns is not changed by a re-sort.
C11_ListingStable ==
    (last.op \in LookupOps /\ last.was_loaded)
        => /\ entities(Self, Env0).ret = last.was
           /\ size(Self, Env0).ret = SizeOfPacks(last.was).ret
           /\ size(Self, Env0).exc = SizeOfPacks(last.was).exc

\* C12: a reconciliation that raises after it read the directory mtime
\* (a new pack file cannot be opened) leaves _st_mtime as it was before the
\* call, so that update_pack_entity_cache(force=False) called right after it,
\* with the directory untouched and its mtime above that marker, scans again.
C12_MarkerOnlyOnSuccess ==
    last.exc = "IOError"
        => /\ _st_mtime = last.was_mtime
           /\ dir_mtime > last.was_mtime
                 => update_pack_entity_cache(Self, Env0, FALSE).w.nscan > 0

\* C13: whichever of the lookups, entities, size, sha_iter and
\* update_pack_entity_cache is the first to use the registry, and whatever
\* the directory mtime is, the registered archives right after that call
\* (if no pack file failed to open) are the pack files on disk.
C13_FirstUseLoadsAll ==
    (/\ last.op \in LookupOps \cup {"entities", "size", "sha_iter",
                                    "update_pack_entity_cache"}
     /\ ~last.was_loaded
     /\ last.exc # "IOError")
        => PathsOf(_entities) = disk

\* C14: a lookup re-sorts the registry before its scan only when
\* _sort_interval hits have been counted since the latest re-sort a lookup
\* made (or when no lookup has re-sorted yet); a lookup that misses does not
\* make the next lookup re-sort.
C14_ResortEveryNHits ==
    (last.op \in LookupOps /\ last.nsort > 0)
        => last.since \in {-1, _sort_interval}

\* C15: in every state that calls made one after the other and changes of
\* the directory lead to, no two items of the registry have the same pack
\* file.
C15_UniquePaths ==
    \A i, j \in DOMAIN _entities :
        _entities[i].entity = _entities[j].entity => i = j

\* both pack files registered again after one was removed and came back,
\* with lookups counted in between
C15_Witness ==
    /\ Len(_entities) = NPacks
    /\ last.op = "update_pack_entity_cache"
    /\ last.exc = None
    /\ last.was # <<>>
    /\ Range(last.was) # PathsOf(_entities)
    /\ _hit_count > 0

\* C16: in calls made one after the other, assert del_index != -1 never
\* fails, and when update_pack_entity_cache reaches its removal loop it
\* deletes exactly the items of the registered pack files that are gone from
\* the directory: one item less for each, none of a pack file still there.
C16_RemovalFindsItem ==
    /\ last.exc # "AssertionError"
    /\ (last.op = "update_pack_entity_cache" /\ last.exc = None /\ last.nscan > 0)
          => /\ \A P \in Range(last.was) : P \in PathsOf(_entities) <=> P \in disk
             /\ Len(_entities) = Cardinality(Range(last.was) \cap disk)
                                 + Cardinality(disk \ Range(last.was))

\* one registered pack file was removed while another stayed
C16_Witness ==
    /\ last.op = "update_pack_entity_cache"
    /\ last.exc = None
    /\ \E P, Q \in Range(last.was) :
          /\ P \notin disk /\ P \notin PathsOf(_entities)
          /\ Q \in disk /\ Q \in PathsOf(_entities)

\* the same items in every order
Reorderings(items) ==
    {[i \in DOMAIN items |-> items[f[i]]] :
        f \in {g \in [DOMAIN items -> DOMAIN items] :
                  \A i, j \in DOMAIN items : g[i] = g[j] => i = j}}

\* C17: for the registry in any two orders, and with the global hit counter
\* such that the lookup re-sorts first or does not, _pack_info of the same
\* sha finds it in both or raises BadObject in both, and where it finds it
\* the archive returned holds the sha.
C17_OrderIndependent ==
    loaded =>
      \A sha \in Shas, hc \in {0, 1}, other \in Reorderings(_entities) :
         LET a == _pack_info([Self EXCEPT !.hit_count = hc], Env0, sha)
             b == _pack_info([Self EXCEPT !.hit_count = hc, !.entities = other],
                             Env0, sha)
         IN /\ a.exc = b.exc
            /\ a.exc \in {None, "BadObject"}
            /\ a.exc = None => /\ Holds(a.ret[1], sha.id)
                               /\ Holds(b.ret[1], sha.id)

\* a lookup has hit on a registry of two items that a re-sort would reorder
C17_Witness ==
    /\ IsHit(last)
    /\ Len(_entities) > 1
    /\ _entities[1].hits < _entities[2].hits
    /\ _pack_info(Self, Env0, BinSha(0)).ret[1] # _entities[1].entity

\* C18: a _pack_info that is scanning while update_pack_entity_cache appends
\* and deletes items still probes every archive that is registered before
\* and after the update: it does not raise BadObject for a sha that such an
\* archive holds.
C18_ScanSeesKeptArchives ==
    \A t \in Threads :
        result[t].exc = "BadObject"
            => \A P \in upd.kept : ~Holds(P, result[t].sha.id)

\* C19: update_pack_entity_cache keeps the item of every registered pack
\* file that is still on disk, with the hits it had (its place in the list
\* may change), and every item it adds starts with the byte size of its
\* pack; this also when the call raises half way.
C19_KeepsUnchanged ==
    [][last'.op = "update_pack_entity_cache"
        => /\ \A P \in PathsOf(_entities) \cap disk :
                /\ P \in PathsOf(_entities')
                /\ HitsOf(_entities', P) = HitsOf(_entities, P)
           /\ \A P \in PathsOf(_entities') \ PathsOf(_entities) :
                /\ P \in disk
                /\ HitsOf(_entities', P) = pack_size(P)
           /\ _hit_count' = _hit_count]_vars

\* a pack file that lookups have hit was kept and another one was added
C19_Witness ==
    /\ last.op = "update_pack_entity_cache"
    /\ last.exc = None
    /\ \E P \in Range(last.was) \cap PathsOf(_entities) :
          /\ HitsOf(_entities, P) > pack_size(P)
          /\ \E Q \in PathsOf(_entities) \ Range(last.was) : Q # P

\* C20: over a directory whose mtime every change of the pack files raises,
\* whatever lookups, updates and changes came before, once
\* update_pack_entity_cache(force=False) has returned the registered archives
\* are the pack files on disk, and has_object of a sha a pack file on disk
\* holds returns True.
C20_RefreshRecovers ==
    (/\ last.op = "update_pack_entity_cache"
     /\ last.arg = FALSE
     /\ last.exc = None)
        => /\ PathsOf(_entities) = disk
           /\ \A sha \in Shas :
                 (\E P \in disk : Holds(P, sha.id))
                     => has_object(Self, Env0, sha).ret = TRUE

====
